---------------------------- MODULE Spec2Model ----------------------------
(***************************************************************************)
(* A model of the RouterNitro glue code:                                   *)
(*   src/controllers/nitroController.ts  getChainDetails                   *)
(*   src/tools/nitro.ts                  extractTransactionDetails,        *)
(*                                       getTokenDetails,                  *)
(*                                       getTransactionDetails, nitro      *)
(*   src/seedDB.ts                       fetchChainData, seedDatabase      *)
(*                                                                         *)
(* Strings whose characters matter (chain names, symbols, queries) are     *)
(* sequences of one-character strings, so that toLowerCase and includes    *)
(* are computed character by character.  A JavaScript value that may be    *)
(* undefined or of the wrong type is a record [t, v]; a nullable result    *)
(* is a sequence of length 0 (null) or 1 (the value).                      *)
(***************************************************************************)
EXTENDS Naturals, Sequences, FiniteSets

VARIABLES
    \* single calls of the three lookups (SpecChain, SpecToken, SpecQuote)
    chainCall,   \* one call of getChainDetails: its argument, the fetch outcome, its result
    tokenCall,   \* one call of getTokenDetails
    quoteCall,   \* one call of getTransactionDetails
    \* one run of the nitro tool (SpecNitro)
    pc,          \* where the run is: the await it is suspended at, or "done"
    query,       \* the tool's argument
    llmOut,      \* what llm.invoke settled with
    details,     \* the extracted TransactionDetails
    chainRes,    \* the settled getChainDetails calls, by side
    tokenArgs,   \* the arguments of the getTokenDetails calls made, by side
    tokenRes,    \* the settled getTokenDetails calls, by side
    pending,     \* the requests in flight, by API
    quoteReq,    \* the body of the quote request
    result,      \* the [content, artifact] pair the tool returns
    log,         \* every call made and every response received, in order
    \* one run of the seeding script (SpecSeed)
    spc,         \* the statement of seedDatabase the script is at
    conn,        \* the state of the MongoClient connection
    closeCalls,  \* how many times client.close() was called
    coll,        \* the documents of the chaindetails collection
    chainData,   \* the validated chains fetchChainData returned
    seedErr,     \* the error seedDatabase is about to reject with
    exitCode     \* the exit status of the process, once it has ended

lookupVars == <<chainCall, tokenCall, quoteCall>>
nitroVars == <<pc, query, llmOut, details, chainRes, tokenArgs, tokenRes, pending,
               quoteReq, result, log>>
seedVars == <<spc, conn, closeCalls, coll, chainData, seedErr, exitCode>>
vars == <<lookupVars, nitroVars, seedVars>>

---------------------------------------------------------------------------
(* Bounds of the model.                                                    *)

\* longest chain directory page the remote chain API returns
MaxChains == 2

\* longest token list the remote token API returns
MaxTokens == 2

\* longest reply of the language model, in tokens
MaxReplyTokens == 4

\* most records the chain directory returns to the seeding script
MaxSeedChains == 2

\* most documents in the collection before the script runs
MaxOldDocs == 2

---------------------------------------------------------------------------
(* JavaScript values.                                                      *)

None == <<>>
Some(x) == <<x>>

Str(s) == [t |-> "str", v |-> s]
Undef == [t |-> "undef", v |-> <<>>]
\* a truthy value that is not a string (a number): it has no toLowerCase
Num == [t |-> "num", v |-> <<>>]

\* x || d
Truthy(x) == ~(x.t = "undef" \/ (x.t = "str" /\ x.v = <<>>))
OrDefault(x, d) == IF Truthy(x) THEN x ELSE d

\* String.prototype.toLowerCase, on the alphabet the model uses
LowerChar(c) ==
    CASE c = "A" -> "a" [] c = "B" -> "b" [] c = "C" -> "c" [] c = "D" -> "d"
      [] c = "E" -> "e" [] c = "G" -> "g" [] c = "H" -> "h" [] c = "L" -> "l"
      [] c = "N" -> "n" [] c = "O" -> "o" [] c = "P" -> "p" [] c = "S" -> "s"
      [] c = "T" -> "t" [] c = "U" -> "u" [] c = "V" -> "v" [] c = "M" -> "m"
      [] OTHER -> c

ToLowerCase(s) == [i \in 1..Len(s) |-> LowerChar(s[i])]

\* String.prototype.includes
Includes(s, t) ==
    \E i \in 0..Len(s) : i + Len(t) <= Len(s) /\ SubSeq(s, i + 1, i + Len(t)) = t

\* the arrays of at most n elements of S
SeqsUpTo(S, n) == UNION {[1..k -> S] : k \in 0..n}

Sides == {"from", "to"}
Neither == [side \in Sides |-> None]

IdleCall == [st |-> "idle"]

LookupsIdle ==
    /\ chainCall = IdleCall
    /\ tokenCall = IdleCall
    /\ quoteCall = IdleCall

NitroIdle ==
    /\ pc = "idle"
    /\ query = ""
    /\ llmOut = None
    /\ details = None
    /\ chainRes = Neither
    /\ tokenArgs = Neither
    /\ tokenRes = Neither
    /\ pending = [chain |-> {}, token |-> {}, quote |-> {}]
    /\ quoteReq = None
    /\ result = None
    /\ log = <<>>

SeedIdle ==
    /\ spc = "idle"
    /\ conn = "closed"
    /\ closeCalls = 0
    /\ coll = <<>>
    /\ chainData = None
    /\ seedErr = None
    /\ exitCode = None


---------------------------------------------------------------------------
(* getChainDetails (src/controllers/nitroController.ts).                   *)

\* the outcome of `await fetch(...)`, response.ok and response.json()
ChainRespKinds == {"neterr", "non2xx", "badjson", "nodata", "notarray", "array"}

\* f?.toLowerCase().includes(searchTerm): "true", "false" (also undefined) or
\* "throw" (a TypeError: f is neither nullish nor a string)
FieldIncludes(f, searchTerm) ==
    CASE f.t = "undef" -> "false"
      [] f.t = "str" -> IF Includes(ToLowerCase(f.v), searchTerm) THEN "true" ELSE "false"
      [] OTHER -> "throw"

\* a || b on three-valued outcomes: b is evaluated only when a is falsy
OrElse(a, b) == IF a = "false" THEN b ELSE a

\* chain.gasToken?.symbol?.toLowerCase().includes(searchTerm)
GasSymbolIncludes(chain, searchTerm) ==
    IF chain.gasToken.present THEN FieldIncludes(chain.gasToken.symbol, searchTerm)
    ELSE "false"

\* the filter callback of lines 41-45
ChainMatches(chain, searchTerm) ==
    OrElse(FieldIncludes(chain.name, searchTerm),
    OrElse(FieldIncludes(chain.chainId, searchTerm),
    OrElse(FieldIncludes(chain.type, searchTerm),
           GasSymbolIncludes(chain, searchTerm))))

Unknown == Str(<<"U", "n", "k", "n", "o", "w", "n">>)

\* the map callback of lines 49-71 (features, metadata, url and timestamp,
\* which no lookup reads, are left out)
ProcessChain(chain) ==
    [chain |-> [name |-> OrDefault(chain.name, Unknown),
                chainId |-> OrDefault(chain.chainId, Unknown),
                type |-> OrDefault(chain.type, Unknown),
                isLive |-> chain.isLive],
     gas |-> [token |-> chain.gasToken]]

MapProcess(chains) == [i \in 1..Len(chains) |-> ProcessChain(chains[i])]

ChainSuccess(processedData) ==
    [success |-> TRUE,
     data |-> Some(processedData),
     message |-> IF Len(processedData) > 0 THEN "Found matching chains"
                 ELSE "No matching chains found",
     timestamp |-> "now",
     source |-> "RouterNitro",
     count |-> Some(Len(processedData))]

ChainFailure(errorMessage) ==
    [success |-> FALSE,
     data |-> None,
     message |-> errorMessage,
     timestamp |-> "now",
     source |-> "RouterNitro",
     count |-> None]

Thrown(msg) == [threw |-> TRUE, err |-> msg, val |-> ChainFailure(msg)]
Returned(v) == [threw |-> FALSE, err |-> "", val |-> v]

\* lines 39-46: the search term is the lower-cased query
ChainSearchTermRaw(chainQuery) == chainQuery

ChainSearchTerm(chainQuery) == ToLowerCase(chainQuery)

\* the try block, lines 5-83
ChainTry(chainQuery, resp) ==
    CASE resp.kind = "neterr" -> Thrown("fetch failed")
      [] resp.kind = "non2xx" -> Thrown("RouterNitro API error")
      [] resp.kind = "badjson" -> Thrown("invalid json")
      [] resp.kind \in {"nodata", "notarray"} -> Thrown("Invalid API response format")
      [] OTHER ->
           LET searchTerm == ChainSearchTerm(chainQuery)
               data == resp.chains
           IN  IF \E i \in 1..Len(data) : ChainMatches(data[i], searchTerm) = "throw"
               THEN Thrown("TypeError")
               ELSE Returned(ChainSuccess(MapProcess(
                        SelectSeq(data, LAMBDA c : ChainMatches(c, searchTerm) = "true"))))

\* a catch that lets the TypeError of the filter escape
ChainCatchHttpOnly(body) ==
    IF body.threw /\ body.err # "TypeError"
    THEN [rejected |-> FALSE, value |-> ChainFailure(body.err)]
    ELSE [rejected |-> body.threw, value |-> body.val]

\* the catch block, lines 84-95: every error becomes a failure object
ChainCatch(body) ==
    IF body.threw
    THEN [rejected |-> FALSE, value |-> ChainFailure(body.err)]
    ELSE [rejected |-> FALSE, value |-> body.val]

GetChainDetails(chainQuery, resp) == ChainCatch(ChainTry(chainQuery, resp))

---------------------------------------------------------------------------
(* getTokenDetails (src/tools/nitro.ts, lines 105-132).                    *)

TokenRespKinds == {"neterr", "non2xx", "badjson", "nodata", "notarray", "array"}

\* the comparison of line 124, without the two toLowerCase calls
SymbolEqualsExact(a, b) == a = b

\* t.symbol.toLowerCase() === tokenSymbol.toLowerCase(), both strings
SymbolEquals(a, b) == ToLowerCase(a) = ToLowerCase(b)

\* the find callback of line 124: "throw" when t.symbol has no toLowerCase
TokenMatches(t, tokenSymbol) ==
    IF t.symbol.t # "str" THEN "throw"
    ELSE IF SymbolEquals(t.symbol.v, tokenSymbol) THEN "true" ELSE "false"

\* Array.prototype.find: the callback runs on the elements in order and
\* stops at the first one it accepts
FindToken(tokens, tokenSymbol) ==
    LET hit == {i \in 1..Len(tokens) : TokenMatches(tokens[i], tokenSymbol) # "false"}
    IN  IF hit = {} THEN [threw |-> FALSE, found |-> None]
        ELSE LET i == CHOOSE k \in hit : \A j \in hit : k <= j
             IN  IF TokenMatches(tokens[i], tokenSymbol) = "throw"
                 THEN [threw |-> TRUE, found |-> None]
                 ELSE [threw |-> FALSE, found |-> Some(tokens[i])]

\* TokenDetailsSchema (lines 17-22)
TokenSchemaOk(t) ==
    /\ t.symbol.t = "str"
    /\ t.address.t = "str"
    /\ t.decimals.t = "num"
    /\ t.chainId.t = "str"

\* what TokenDetailsSchema.parse returns: the four fields, unknown keys stripped
TokenSchemaParse(t) ==
    [symbol |-> t.symbol, address |-> t.address, decimals |-> t.decimals,
     chainId |-> t.chainId]

\* the try block, lines 107-127: threw, or the value returned
TokenTry(chainId, tokenSymbol, resp) ==
    IF resp.kind \in {"neterr", "non2xx", "badjson", "notarray"}
    THEN [threw |-> TRUE, val |-> None]
    ELSE LET tokens == IF resp.kind = "nodata" THEN <<>> ELSE resp.tokens
             f == FindToken(tokens, tokenSymbol)
         IN  IF f.threw THEN [threw |-> TRUE, val |-> None]
             ELSE IF f.found = None THEN [threw |-> FALSE, val |-> None]
             ELSE IF TokenSchemaOk(f.found[1])
                  THEN [threw |-> FALSE, val |-> Some(TokenSchemaParse(f.found[1]))]
                  ELSE [threw |-> TRUE, val |-> None]

\* with the catch block, lines 128-131: every error becomes null
GetTokenDetails(chainId, tokenSymbol, resp) ==
    LET body == TokenTry(chainId, tokenSymbol, resp)
    IN  [rejected |-> FALSE, value |-> IF body.threw THEN None ELSE body.val]

---------------------------------------------------------------------------
(* getTransactionDetails (src/tools/nitro.ts, lines 135-167).              *)

QuoteRespKinds == {"neterr", "non2xx", "badjson", "json"}

\* the JSON type of a field of the response body
JsonTypes == {"number", "string", "array", "undefined"}

\* a schema that does not ask for priceImpact
QuoteSchemaOkNoImpact(body) ==
    /\ body.estimatedGas = "number"
    /\ body.route = "array"
    /\ body.expectedOutput = "string"

\* QuoteResponseSchema (lines 24-29)
QuoteSchemaOk(body) ==
    /\ body.estimatedGas = "number"
    /\ body.route = "array"
    /\ body.expectedOutput = "string"
    /\ body.priceImpact = "string"

\* lines 142-166
GetTransactionDetails(params, resp) ==
    IF resp.kind = "json" /\ QuoteSchemaOk(resp.body)
    THEN [rejected |-> FALSE, value |-> Some(resp.body)]
    ELSE [rejected |-> FALSE, value |-> None]

---------------------------------------------------------------------------
(* extractTransactionDetails (src/tools/nitro.ts, lines 52-102).           *)
(* The reply of the language model is a sequence of tokens: "{", "}",      *)
(* "txt" (text with no brace) and "kv" (the key-value pairs of `obj`).     *)

DetailFields == {"fromChain", "toChain", "amount", "fromToken", "toToken"}

Braces(toks, b) == {i \in 1..Len(toks) : toks[i] = b}

\* content.match(/\{[\s\S]*\}/): from the first "{" to the last "}" after it
JsonMatch(toks) ==
    IF \E i \in Braces(toks, "{") : \E j \in Braces(toks, "}") : i < j
    THEN LET i == CHOOSE k \in Braces(toks, "{") : \A m \in Braces(toks, "{") : k <= m
             j == CHOOSE k \in Braces(toks, "}") : \A m \in Braces(toks, "}") : m <= k
         IN  Some(SubSeq(toks, i, j))
    ELSE None

NoFields == [f \in DetailFields |-> Undef]

\* JSON.parse of the matched text: an object, or a SyntaxError
JsonParse(text, obj) ==
    CASE text = <<"{", "kv", "}">> -> [threw |-> FALSE, val |-> obj]
      [] text = <<"{", "}">> -> [threw |-> FALSE, val |-> NoFields]
      [] OTHER -> [threw |-> TRUE, val |-> NoFields]

\* a schema in which toToken is optional
DetailsSchemaOkOptionalToToken(obj) ==
    \A f \in DetailFields \ {"toToken"} : obj[f].t = "str"

\* TransactionDetailsSchema (lines 9-15): five required strings
DetailsSchemaOk(obj) == \A f \in DetailFields : obj[f].t = "str"

ExtractFailed(why) == [threw |-> TRUE, err |-> why, val |-> NoFields]

\* lines 53-101, given what llm.invoke settled with
ExtractTransactionDetails(llm) ==
    IF llm.kind = "throw" THEN ExtractFailed("llm error")
    ELSE IF ~llm.isString
         THEN \* extractedData = content, an array of content parts
              ExtractFailed("validation")
    ELSE LET jsonMatch == JsonMatch(llm.toks)
         IN  IF jsonMatch = None THEN ExtractFailed("No JSON object found in LLM response")
             ELSE LET parsed == JsonParse(jsonMatch[1], llm.obj)
                  IN  IF parsed.threw THEN ExtractFailed("SyntaxError")
                      ELSE IF DetailsSchemaOk(parsed.val)
                           THEN [threw |-> FALSE, err |-> "", val |-> parsed.val]
                           ELSE ExtractFailed("validation")

---------------------------------------------------------------------------
(* The nitro tool (src/tools/nitro.ts, lines 169-258).                     *)

Msg(text) == [text |-> text, args |-> <<>>]

GenericError == "An error occurred while processing your request. Please try again."
ChainError == "Failed to fetch chain details. Please check the chain names and try again."
TokenError == "Failed to fetch token details. Please check the token symbols and try again."
QuoteError == "Failed to fetch quote. Please try again with different parameters."

\* the catch block, lines 248-257
CaughtResult(errorMessage, q) ==
    [msg |-> Msg(GenericError), artifact |-> [error |-> errorMessage, query |-> q]]

\* lines 186-192
ChainFailedResult(fromChainResult, toChainResult) ==
    [msg |-> Msg(ChainError),
     artifact |-> [error |-> "Invalid chain information",
                   details |-> [fromChainResult |-> fromChainResult,
                                toChainResult |-> toChainResult]]]

\* lines 205-211
TokenFailedResult(fromToken, toToken) ==
    [msg |-> Msg(TokenError),
     artifact |-> [error |-> "Invalid token information",
                   details |-> [fromToken |-> fromToken, toToken |-> toToken]]]

\* lines 224-227
QuoteFailedResult ==
    [msg |-> Msg(QuoteError), artifact |-> [error |-> "Error getting quote"]]

\* lines 231-247: the summary interpolates the extracted details and the quote
SuccessResult(d, fromChain, toChain, fromToken, toToken, quote) ==
    [msg |-> [text |-> "Found route to",
              args |-> <<d.toToken.v, d.toChain.v, d.amount.v, d.fromToken.v,
                         quote.expectedOutput, d.toToken.v, quote.priceImpact,
                         quote.estimatedGas>>],
     artifact |-> [fromChain |-> fromChain, toChain |-> toChain,
                   fromToken |-> fromToken, toToken |-> toToken,
                   amount |-> d.amount.v, quote |-> quote]]

\* a gate that halts only when both lookups failed
ChainGateFailsBoth(fromChainResult, toChainResult) ==
    ~fromChainResult.success /\ ~toChainResult.success

\* line 185
ChainGateFails(fromChainResult, toChainResult) ==
    ~fromChainResult.success \/ ~toChainResult.success

\* lines 195-196, r.data[0]?.chain: a TypeError when data is null, undefined
\* when data is empty
FirstChain(r) ==
    IF r.data = None THEN [threw |-> TRUE, val |-> None]
    ELSE IF Len(r.data[1]) = 0 THEN [threw |-> FALSE, val |-> None]
    ELSE [threw |-> FALSE, val |-> Some(r.data[1][1].chain)]

\* line 204
TokenGateFails(fromToken, toToken) == fromToken = None \/ toToken = None

\* a Promise.all that fills its result array in the order of settlement
SettleInArrivalOrder(res, side, out) ==
    IF res["from"] = None THEN [res EXCEPT !["from"] = Some(out)]
    ELSE [res EXCEPT !["to"] = Some(out)]

\* Promise.all (lines 180-183, 199-202): each result is kept at the position
\* of its promise
Settle(res, side, out) == [res EXCEPT ![side] = Some(out)]

AllSettled(res) == \A side \in Sides : res[side] # None

Call(api, side) == [ev |-> "call", api |-> api, side |-> side]
Ret(api, side, resp) == [ev |-> "ret", api |-> api, side |-> side, resp |-> resp]

---------------------------------------------------------------------------
(* Inputs of the chain lookup.                                             *)

GasToken(sym) == [present |-> TRUE, symbol |-> sym]
NoGasToken == [present |-> FALSE, symbol |-> Undef]

chBSC == [name |-> Str(<<"B", "S", "C">>), chainId |-> Str(<<"5", "6">>),
          type |-> Str(<<"e", "v", "m">>), isLive |-> TRUE,
          gasToken |-> GasToken(Str(<<"B", "N", "B">>))]
chBase == [name |-> Str(<<"B", "a", "s", "e">>), chainId |-> Str(<<"8", "4">>),
           type |-> Str(<<"e", "v", "m">>), isLive |-> TRUE,
           gasToken |-> GasToken(Str(<<"E", "T", "H">>))]
chSol == [name |-> Str(<<"S", "o", "l">>), chainId |-> Str(<<"s", "o", "l">>),
          type |-> Str(<<"s", "v", "m">>), isLive |-> FALSE,
          gasToken |-> GasToken(Undef)]
\* a record with only a chainId
chBare == [name |-> Undef, chainId |-> Str(<<"1">>), type |-> Undef,
           isLive |-> FALSE, gasToken |-> NoGasToken]
\* a record whose chainId is a number
chNumId == [name |-> Str(<<"O", "p">>), chainId |-> Num, type |-> Str(<<"e", "v", "m">>),
            isLive |-> TRUE, gasToken |-> NoGasToken]
\* a record with no field the filter reads
chEmpty == [name |-> Undef, chainId |-> Undef, type |-> Undef,
            isLive |-> FALSE, gasToken |-> NoGasToken]

ChainPool == {chBSC, chBase, chSol, chBare, chNumId, chEmpty}

ChainQueries ==
    {<<"b", "s", "c">>, <<"B">>, <<"E", "t", "h">>, <<"5">>, <<"v", "m">>,
     <<"O", "P">>, <<"x">>, <<>>}

ChainResponses ==
    {[kind |-> k, chains |-> <<>>] : k \in ChainRespKinds \ {"array"}}
    \cup {[kind |-> "array", chains |-> cs] : cs \in SeqsUpTo(ChainPool, MaxChains)}

ChainInit ==
    /\ chainCall \in {[st |-> "pending", query |-> q] : q \in ChainQueries}
    /\ tokenCall = IdleCall
    /\ quoteCall = IdleCall
    /\ NitroIdle
    /\ SeedIdle

\* the fetch settles and getChainDetails runs to its return
ChainSettle ==
    /\ chainCall.st = "pending"
    /\ \E resp \in ChainResponses :
         chainCall' = [st |-> "done", query |-> chainCall.query, resp |-> resp,
                       out |-> GetChainDetails(chainCall.query, resp)]
    /\ UNCHANGED <<tokenCall, quoteCall, nitroVars, seedVars>>

ChainNext == ChainSettle

SpecChain == ChainInit /\ [][ChainNext]_vars

---------------------------------------------------------------------------
(* Properties of the chain lookup, checked under SpecChain.                *)

ChainDone == chainCall.st = "done"

\* s contains q, comparing characters without regard to case
ContainsCI(s, q) ==
    \E i \in 0..Len(s) :
        /\ i + Len(q) <= Len(s)
        /\ \A j \in 1..Len(q) : LowerChar(s[i + j]) = LowerChar(q[j])

\* the four fields the lookup searches, in the order it reads them
SearchedFields(c) ==
    <<c.name, c.chainId, c.type, IF c.gasToken.present THEN c.gasToken.symbol ELSE Undef>>

FieldHolds(f, q) == f.t = "str" /\ ContainsCI(f.v, q)

\* the record has a searched field that holds the query
HoldsQuery(c, q) == \E k \in 1..4 : FieldHolds(SearchedFields(c)[k], q)

\* reading the record raises: a searched field is a number and no field read
\* before it holds the query
RaisesOn(c, q) ==
    \E k \in 1..4 :
        /\ SearchedFields(c)[k].t = "num"
        /\ \A j \in 1..(k - 1) : ~FieldHolds(SearchedFields(c)[j], q)

MatchIdx(chains, q) == {i \in 1..Len(chains) : HoldsQuery(chains[i], q)}

\* the index in chains of the k-th record that holds the query
NthMatch(chains, q, k) ==
    CHOOSE i \in MatchIdx(chains, q) :
        Cardinality({j \in MatchIdx(chains, q) : j <= i}) = k

IsStructuredFailure(v) ==
    /\ v.success = FALSE
    /\ v.data = None
    /\ v.message # ""
    /\ v.timestamp = "now"
    /\ v.source = "RouterNitro"

\* C6: getChainDetails never rejects; a network error, a non-2xx status, a
\* body that is not JSON, a data field that is missing or not an array, and
\* an error raised while filtering a record each give the failure object
\* {success:false, data:null, message, timestamp, source}; success:true is
\* returned only for a 2xx response whose data field is an array.
C6_ChainLookupNeverThrows ==
    ChainDone =>
        LET resp == chainCall.resp
            out == chainCall.out
            raised == \E i \in 1..Len(resp.chains) : RaisesOn(resp.chains[i], chainCall.query)
        IN  /\ out.rejected = FALSE
            /\ (resp.kind # "array" \/ raised) => IsStructuredFailure(out.value)
            /\ out.value.success => (resp.kind = "array" /\ out.value.data # None)
            /\ ~out.value.success => IsStructuredFailure(out.value)

\* a 2xx array response one of whose records raised while being filtered
C6_Witness ==
    /\ ChainDone
    /\ chainCall.resp.kind = "array"
    /\ \E i \in 1..Len(chainCall.resp.chains) :
           RaisesOn(chainCall.resp.chains[i], chainCall.query)
    /\ chainCall.out.value.message = "TypeError"
    /\ IsStructuredFailure(chainCall.out.value)

\* C9: on a successful lookup data holds exactly the fetched chains one of
\* whose name, chainId, type or gasToken.symbol contains the query as a
\* case-insensitive substring, each once and in fetched order, and count is
\* the length of data; a response all of whose records are well typed always
\* succeeds, with data [] and count 0 when nothing matches.
C9_ChainFilterExact ==
    (ChainDone /\ chainCall.resp.kind = "array") =>
        LET chains == chainCall.resp.chains
            q == chainCall.query
            v == chainCall.out.value
            raised == \E i \in 1..Len(chains) : RaisesOn(chains[i], q)
        IN  /\ v.success = ~raised
            /\ v.success =>
                 /\ Len(v.data[1]) = Cardinality(MatchIdx(chains, q))
                 /\ v.count = Some(Len(v.data[1]))
                 /\ \A k \in 1..Len(v.data[1]) :
                        v.data[1][k] = ProcessChain(chains[NthMatch(chains, q, k)])
                 /\ (MatchIdx(chains, q) = {}) =>
                        (v.data = Some(<<>>) /\ v.count = Some(0)
                         /\ v.message = "No matching chains found")

\* an upper-case query that one fetched chain holds only in lower case or in
\* its gas token, and that another fetched chain does not hold
C9_Witness ==
    /\ ChainDone
    /\ chainCall.resp.kind = "array"
    /\ chainCall.out.value.success
    /\ chainCall.query # ToLowerCase(chainCall.query)
    /\ Len(chainCall.resp.chains) = 2
    /\ chainCall.out.value.count = Some(1)
    /\ chainCall.out.value.data[1][1].chain.name = chBase.name
    /\ chainCall.resp.chains[1] = chSol

---------------------------------------------------------------------------
(* One call of getTokenDetails on any token list (SpecToken).              *)

Token(sym, addr, dec, cid) ==
    [symbol |-> sym, address |-> addr, decimals |-> dec, chainId |-> cid, name |-> "extra"]

cid56 == <<"5", "6">>
cid84 == <<"8", "4">>

tkETH == Token(Str(<<"E", "T", "H">>), Str(<<"0", "x", "1">>), Num, Str(cid56))
tkEthLower == Token(Str(<<"e", "t", "h">>), Str(<<"0", "x", "2">>), Num, Str(cid56))
tkUSDC == Token(Str(<<"U", "S", "D", "C">>), Str(<<"0", "x", "3">>), Num, Str(cid56))
\* a record without decimals
tkNoDecimals == Token(Str(<<"U", "s", "d", "t">>), Str(<<"0", "x", "4">>), Undef, Str(cid56))
\* a record without a symbol
tkNoSymbol == Token(Undef, Str(<<"0", "x", "5">>), Num, Str(cid56))

TokenPool == {tkETH, tkEthLower, tkUSDC, tkNoDecimals, tkNoSymbol}

TokenSymbols ==
    {<<"e", "t", "h">>, <<"E", "T", "H">>, <<"U", "S", "D", "T">>, <<"u", "s", "d", "c">>,
     <<"D", "O", "G", "E">>}

TokenResponses ==
    {[kind |-> k, tokens |-> <<>>] : k \in TokenRespKinds \ {"array"}}
    \cup {[kind |-> "array", tokens |-> ts] : ts \in SeqsUpTo(TokenPool, MaxTokens)}

TokenInit ==
    /\ tokenCall \in {[st |-> "pending", chainId |-> cid56, symbol |-> sym] :
                        sym \in TokenSymbols}
    /\ chainCall = IdleCall
    /\ quoteCall = IdleCall
    /\ NitroIdle
    /\ SeedIdle

\* the fetch settles and getTokenDetails runs to its return
TokenSettle ==
    /\ tokenCall.st = "pending"
    /\ \E resp \in TokenResponses :
         tokenCall' = [st |-> "done", chainId |-> tokenCall.chainId,
                       symbol |-> tokenCall.symbol, resp |-> resp,
                       out |-> GetTokenDetails(tokenCall.chainId, tokenCall.symbol, resp)]
    /\ UNCHANGED <<chainCall, quoteCall, nitroVars, seedVars>>

TokenNext == TokenSettle

SpecToken == TokenInit /\ [][TokenNext]_vars

TokenDone == tokenCall.st = "done"

\* two strings are equal up to the case of their characters
EqualCI(a, b) ==
    /\ Len(a) = Len(b)
    /\ \A i \in 1..Len(a) : LowerChar(a[i]) = LowerChar(b[i])

SymbolIdx(tokens, sym) ==
    {i \in 1..Len(tokens) : tokens[i].symbol.t = "str" /\ EqualCI(tokens[i].symbol.v, sym)}

FirstSymbolIdx(tokens, sym) ==
    CHOOSE i \in SymbolIdx(tokens, sym) : \A j \in SymbolIdx(tokens, sym) : i <= j

TokenFieldsEqual(v, t) ==
    /\ DOMAIN v = {"symbol", "address", "decimals", "chainId"}
    /\ v.symbol = t.symbol
    /\ v.address = t.address
    /\ v.decimals = t.decimals
    /\ v.chainId = t.chainId

\* C7: getTokenDetails never rejects; a non-null result is the first fetched
\* record whose symbol equals the requested one case-insensitively; the
\* result is null when the fetch, the status or the body is bad or when no
\* record matches; and when the records scanned up to the first match have a
\* symbol and that match passes the schema, the result is that match.
C7_TokenLookupFirstMatchOrNull ==
    TokenDone =>
        LET resp == tokenCall.resp
            out == tokenCall.out
            sym == tokenCall.symbol
            idx == SymbolIdx(resp.tokens, sym)
        IN  /\ out.rejected = FALSE
            /\ resp.kind # "array" => out.value = None
            /\ idx = {} => out.value = None
            /\ out.value # None =>
                 TokenFieldsEqual(out.value[1], resp.tokens[FirstSymbolIdx(resp.tokens, sym)])
            /\ (/\ resp.kind = "array"
                /\ idx # {}
                /\ \A j \in 1..FirstSymbolIdx(resp.tokens, sym) : resp.tokens[j].symbol.t = "str"
                /\ LET t == resp.tokens[FirstSymbolIdx(resp.tokens, sym)]
                   IN  t.address.t = "str" /\ t.decimals.t = "num" /\ t.chainId.t = "str")
               => out.value # None

\* "eth" is looked up in a list whose first record is ETH and whose second
\* record matches too
C7_Witness ==
    /\ TokenDone
    /\ tokenCall.symbol = <<"e", "t", "h">>
    /\ tokenCall.resp.kind = "array"
    /\ tokenCall.resp.tokens = <<tkETH, tkEthLower>>
    /\ tokenCall.out.value # None
    /\ tokenCall.out.value[1].address = tkETH.address

---------------------------------------------------------------------------
(* One call of getTransactionDetails on any response (SpecQuote).          *)

QuoteFields == {"estimatedGas", "route", "expectedOutput", "priceImpact"}

QuoteBodies == [QuoteFields -> JsonTypes]

QuoteResponses ==
    {[kind |-> k, body |-> [f \in QuoteFields |-> "undefined"]] :
        k \in QuoteRespKinds \ {"json"}}
    \cup {[kind |-> "json", body |-> b] : b \in QuoteBodies}

QuoteParams(fromId, toId, fromAddr, toAddr, amt) ==
    [fromChainId |-> fromId, toChainId |-> toId, fromTokenAddress |-> fromAddr,
     toTokenAddress |-> toAddr, amount |-> amt]

QuoteParamsPool ==
    {QuoteParams(Str(cid56), Str(cid84), tkETH.address, tkUSDC.address, amt) :
        amt \in {<<"5", "0">>, <<"a", "b", "c">>}}

QuoteInit ==
    /\ quoteCall \in {[st |-> "new", params |-> p, posts |-> 0] : p \in QuoteParamsPool}
    /\ chainCall = IdleCall
    /\ tokenCall = IdleCall
    /\ NitroIdle
    /\ SeedIdle

\* lines 145-153: the POST is sent
QuoteIssue ==
    /\ quoteCall.st = "new"
    /\ quoteCall' = [quoteCall EXCEPT !.st = "pending", !.posts = @ + 1]
    /\ UNCHANGED <<chainCall, tokenCall, nitroVars, seedVars>>

\* the fetch settles and getTransactionDetails runs to its return
QuoteSettle ==
    /\ quoteCall.st = "pending"
    /\ \E resp \in QuoteResponses :
         quoteCall' = [st |-> "done", params |-> quoteCall.params,
                       posts |-> quoteCall.posts, resp |-> resp,
                       out |-> GetTransactionDetails(quoteCall.params, resp)]
    /\ UNCHANGED <<chainCall, tokenCall, nitroVars, seedVars>>

QuoteNext == QuoteIssue \/ QuoteSettle

SpecQuote == QuoteInit /\ [][QuoteNext]_vars

QuoteDone == quoteCall.st = "done"

\* the response is a 2xx JSON body with the four fields of the schema
SatisfiesQuoteSchema(resp) ==
    /\ resp.kind = "json"
    /\ resp.body["estimatedGas"] = "number"
    /\ resp.body["route"] = "array"
    /\ resp.body["expectedOutput"] = "string"
    /\ resp.body["priceImpact"] = "string"

\* C8: getTransactionDetails sends one POST and never rejects; it resolves
\* to null on a transport error, a non-2xx status and a body that fails the
\* schema, in particular one that lacks a required field, and to the quote
\* exactly when the response satisfies the schema.
C8_QuoteLookupNullOnFailure ==
    QuoteDone =>
        LET resp == quoteCall.resp
            out == quoteCall.out
        IN  /\ quoteCall.posts = 1
            /\ out.rejected = FALSE
            /\ (out.value # None) = SatisfiesQuoteSchema(resp)
            /\ out.value # None => out.value[1] = resp.body
            /\ \A f \in QuoteFields :
                   (resp.kind = "json" /\ resp.body[f] = "undefined") => out.value = None

\* a 2xx body that has every field but priceImpact
C8_Witness ==
    /\ QuoteDone
    /\ quoteCall.resp.kind = "json"
    /\ quoteCall.resp.body = [estimatedGas |-> "number", route |-> "array",
                               expectedOutput |-> "string", priceImpact |-> "undefined"]
    /\ quoteCall.out.value = None
    /\ quoteCall.posts = 1

---------------------------------------------------------------------------
(* One run of the nitro tool (SpecNitro): what the language model and the  *)
(* three remote APIs may answer.                                           *)

NitroQueries == {"Bridge 50 USDT from BSC to Base", "swap"}

dBridge == [fromChain |-> Str(<<"b", "s", "c">>), toChain |-> Str(<<"B", "a", "s", "e">>),
            amount |-> Str(<<"5", "0">>),
            fromToken |-> Str(<<"u", "s", "d", "t">>), toToken |-> Str(<<"E", "T", "H">>)]
\* both sides name chains by the same fragment; the amount is not a number
dSame == [fromChain |-> Str(<<"B">>), toChain |-> Str(<<"B">>),
          amount |-> Str(<<"a", "b", "c">>),
          fromToken |-> Str(<<"e", "t", "h">>), toToken |-> Str(<<"e", "t", "h">>)]

LlmObjects ==
    {dBridge, dSame, [dBridge EXCEPT !["amount"] = Num]}
    \cup {[dBridge EXCEPT ![f] = Undef] : f \in DetailFields}

ReplyTokens == {"{", "}", "kv", "txt"}

LlmOutcomes ==
    {[kind |-> "throw", isString |-> FALSE, toks |-> <<>>, obj |-> NoFields],
     [kind |-> "reply", isString |-> FALSE, toks |-> <<>>, obj |-> dBridge]}
    \cup {[kind |-> "reply", isString |-> TRUE, toks |-> toks, obj |-> obj] :
            toks \in SeqsUpTo(ReplyTokens, MaxReplyTokens), obj \in LlmObjects}

NitroChainResponses ==
    {[kind |-> "neterr", chains |-> <<>>], [kind |-> "nodata", chains |-> <<>>]}
    \cup {[kind |-> "array", chains |-> cs] :
            cs \in {<<>>, <<chSol>>, <<chBSC, chBase>>, <<chBase, chSol, chBSC>>,
                    <<chNumId, chBSC>>}}

\* the address of a token is particular to its chain
AddressOn(cid, sym) == Str(cid \o <<":">> \o sym)

TokenOn(cid, sym) == Token(Str(sym), AddressOn(cid, sym), Num, Str(cid))

\* the token list the remote API keeps for a chain
TokenDirectory(chainId) ==
    IF chainId = Str(cid56)
    THEN <<TokenOn(cid56, <<"U", "S", "D", "T">>), TokenOn(cid56, <<"E", "T", "H">>)>>
    ELSE IF chainId = Str(cid84)
    THEN <<TokenOn(cid84, <<"e", "t", "h">>), TokenOn(cid84, <<"E", "T", "H">>),
           TokenOn(cid84, <<"U", "s", "d", "t">>)>>
    ELSE <<>>

NitroTokenResponses(chainId) ==
    {[kind |-> "neterr", tokens |-> <<>>],
     [kind |-> "nodata", tokens |-> <<>>],
     [kind |-> "array", tokens |-> TokenDirectory(chainId)],
     [kind |-> "array", tokens |-> <<tkNoSymbol>> \o TokenDirectory(chainId)]}

GoodQuote == [estimatedGas |-> "number", route |-> "array",
              expectedOutput |-> "string", priceImpact |-> "string"]

NitroQuoteResponses ==
    {[kind |-> "neterr", body |-> [f \in QuoteFields |-> "undefined"]],
     [kind |-> "non2xx", body |-> [f \in QuoteFields |-> "undefined"]],
     [kind |-> "json", body |-> GoodQuote],
     [kind |-> "json", body |-> [GoodQuote EXCEPT !["priceImpact"] = "undefined"]],
     [kind |-> "json", body |-> [GoodQuote EXCEPT !["estimatedGas"] = "string"]]}

---------------------------------------------------------------------------
(* One run of the nitro tool: the steps between its awaits.                *)

NitroInit ==
    /\ LookupsIdle
    /\ SeedIdle
    /\ pc = "start"
    /\ query \in NitroQueries
    /\ llmOut = None
    /\ details = None
    /\ chainRes = Neither
    /\ tokenArgs = Neither
    /\ tokenRes = Neither
    /\ pending = [chain |-> {}, token |-> {}, quote |-> {}]
    /\ quoteReq = None
    /\ result = None
    /\ log = <<>>

\* lines 172-175 and 54-64: the tool is called and calls the language model
NitroStart ==
    /\ pc = "start"
    /\ pc' = "llm"
    /\ log' = Append(log, Call("llm", "-"))
    /\ UNCHANGED <<seedVars, lookupVars, query, llmOut, details, chainRes, tokenArgs, tokenRes,
                   pending, quoteReq, result>>

\* lines 66-101 and 175-183: llm.invoke settles, the reply is parsed, and
\* either the error is caught or both chain lookups are started
NitroLlmSettle ==
    /\ pc = "llm"
    /\ \E out \in LlmOutcomes :
         LET r == ExtractTransactionDetails(out)
         IN  /\ llmOut' = Some(out)
             /\ IF r.threw
                THEN /\ pc' = "done"
                     /\ result' = Some(CaughtResult(r.err, query))
                     /\ UNCHANGED <<details, pending, log>>
                ELSE /\ pc' = "chains"
                     /\ details' = Some(r.val)
                     /\ pending' = [pending EXCEPT !.chain = Sides]
                     /\ log' = log \o <<Call("chain", "from"), Call("chain", "to")>>
                     /\ UNCHANGED result
    /\ UNCHANGED <<seedVars, lookupVars, query, chainRes, tokenArgs, tokenRes, quoteReq>>

ChainQueryOf(side) ==
    IF side = "from" THEN details[1].fromChain.v ELSE details[1].toChain.v

\* one of the two getChainDetails calls settles
NitroChainSettle(side) ==
    /\ side \in pending.chain
    /\ \E resp \in NitroChainResponses :
         /\ chainRes' = Settle(chainRes, side, GetChainDetails(ChainQueryOf(side), resp))
         /\ log' = Append(log, Ret("chain", side, resp))
    /\ pending' = [pending EXCEPT !.chain = @ \ {side}]
    /\ UNCHANGED <<seedVars, lookupVars, pc, query, llmOut, details, tokenArgs, tokenRes,
                   quoteReq, result>>

\* lines 185-202 once both chain lookups have settled: the result returned
\* (if any) and the getTokenDetails calls made before the step ends
AfterChains(f, t, d, q) ==
    IF f.rejected \/ t.rejected
    THEN [halt |-> TRUE, result |-> CaughtResult("rejected", q), calls |-> <<>>]
    ELSE IF ChainGateFails(f.value, t.value)
    THEN [halt |-> TRUE, result |-> ChainFailedResult(f.value, t.value), calls |-> <<>>]
    ELSE LET fromChain == FirstChain(f.value)
             toChain == FirstChain(t.value)
         IN  IF fromChain.threw \/ toChain.threw \/ fromChain.val = None
             THEN \* fromChain.chainId raises before any call is made
                  [halt |-> TRUE, result |-> CaughtResult("TypeError", q), calls |-> <<>>]
             ELSE IF toChain.val = None
             THEN \* the first element of the array is evaluated, then
                  \* toChain.chainId raises
                  [halt |-> TRUE, result |-> CaughtResult("TypeError", q),
                   calls |-> <<[side |-> "from",
                                args |-> [chainId |-> fromChain.val[1].chainId,
                                          symbol |-> d.fromToken.v]]>>]
             ELSE [halt |-> FALSE, result |-> CaughtResult("", q),
                   calls |-> <<[side |-> "from",
                                args |-> [chainId |-> fromChain.val[1].chainId,
                                          symbol |-> d.fromToken.v]],
                               [side |-> "to",
                                args |-> [chainId |-> toChain.val[1].chainId,
                                          symbol |-> d.toToken.v]]>>]

ArgsOf(calls, side) == calls[CHOOSE i \in 1..Len(calls) : calls[i].side = side].args

NitroAfterChains ==
    /\ pc = "chains"
    /\ AllSettled(chainRes)
    /\ LET o == AfterChains(chainRes["from"][1], chainRes["to"][1], details[1], query)
           called == {o.calls[i].side : i \in 1..Len(o.calls)}
       IN  /\ pc' = IF o.halt THEN "done" ELSE "tokens"
           /\ result' = IF o.halt THEN Some(o.result) ELSE None
           /\ tokenArgs' = [side \in Sides |->
                              IF side \in called
                              THEN Some(ArgsOf(o.calls, side))
                              ELSE None]
           /\ pending' = [pending EXCEPT !.token = called]
           /\ log' = log \o [i \in 1..Len(o.calls) |-> Call("token", o.calls[i].side)]
    /\ UNCHANGED <<seedVars, lookupVars, query, llmOut, details, chainRes, tokenRes, quoteReq>>

\* one of the getTokenDetails calls settles (also after the run has returned)
NitroTokenSettle(side) ==
    /\ side \in pending.token
    /\ \E resp \in NitroTokenResponses(tokenArgs[side][1].chainId) :
         /\ tokenRes' = Settle(tokenRes, side,
                               GetTokenDetails(tokenArgs[side][1].chainId,
                                               tokenArgs[side][1].symbol, resp))
         /\ log' = Append(log, Ret("token", side, resp))
    /\ pending' = [pending EXCEPT !.token = @ \ {side}]
    /\ UNCHANGED <<seedVars, lookupVars, pc, query, llmOut, details, chainRes, tokenArgs,
                   quoteReq, result>>

\* the chain records of lines 195-196
ChainOf(side) == FirstChain(chainRes[side][1].value).val[1]

\* lines 204-221 once both token lookups have settled
AfterTokens(f, t, q) ==
    IF f.rejected \/ t.rejected
    THEN [halt |-> TRUE, result |-> CaughtResult("rejected", q)]
    ELSE IF TokenGateFails(f.value, t.value)
    THEN [halt |-> TRUE, result |-> TokenFailedResult(f.value, t.value)]
    ELSE IF f.value = None \/ t.value = None
    THEN \* fromToken.address raises
         [halt |-> TRUE, result |-> CaughtResult("TypeError", q)]
    ELSE [halt |-> FALSE, result |-> CaughtResult("", q)]

NitroAfterTokens ==
    /\ pc = "tokens"
    /\ AllSettled(tokenRes)
    /\ LET f == tokenRes["from"][1]
           t == tokenRes["to"][1]
           o == AfterTokens(f, t, query)
       IN  IF o.halt
           THEN /\ pc' = "done"
                /\ result' = Some(o.result)
                /\ UNCHANGED <<quoteReq, pending, log>>
           ELSE /\ pc' = "quote"
                /\ quoteReq' = Some(QuoteParams(ChainOf("from").chainId,
                                                ChainOf("to").chainId,
                                                f.value[1].address, t.value[1].address,
                                                details[1].amount.v))
                /\ pending' = [pending EXCEPT !.quote = {"-"}]
                /\ log' = Append(log, Call("quote", "-"))
                /\ UNCHANGED result
    /\ UNCHANGED <<seedVars, lookupVars, query, llmOut, details, chainRes, tokenArgs, tokenRes>>

\* lines 223-247: the quote lookup settles and the tool returns
AfterQuote(q, d, fromChain, toChain, fromToken, toToken, quote) ==
    IF quote.rejected THEN CaughtResult("rejected", q)
    ELSE IF quote.value = None THEN QuoteFailedResult
    ELSE SuccessResult(d, fromChain, toChain, fromToken, toToken, quote.value[1])

NitroQuoteSettle ==
    /\ pc = "quote"
    /\ pending.quote # {}
    /\ \E resp \in NitroQuoteResponses :
         /\ result' = Some(AfterQuote(query, details[1], ChainOf("from"), ChainOf("to"),
                                      tokenRes["from"][1].value[1], tokenRes["to"][1].value[1],
                                      GetTransactionDetails(quoteReq[1], resp)))
         /\ log' = Append(log, Ret("quote", "-", resp))
    /\ pc' = "done"
    /\ pending' = [pending EXCEPT !.quote = {}]
    /\ UNCHANGED <<seedVars, lookupVars, query, llmOut, details, chainRes, tokenArgs, tokenRes,
                   quoteReq>>

NitroNext ==
    \/ NitroStart
    \/ NitroLlmSettle
    \/ \E side \in Sides : NitroChainSettle(side)
    \/ NitroAfterChains
    \/ \E side \in Sides : NitroTokenSettle(side)
    \/ NitroAfterTokens
    \/ NitroQuoteSettle

SpecNitro == NitroInit /\ [][NitroNext]_vars

---------------------------------------------------------------------------
(* Properties of the nitro tool, checked under SpecNitro.                  *)

CallIdx(api, side) ==
    {i \in 1..Len(log) : log[i].ev = "call" /\ log[i].api = api /\ log[i].side = side}

RetIdx(api, side) ==
    {i \in 1..Len(log) : log[i].ev = "ret" /\ log[i].api = api /\ log[i].side = side}

\* how many times a lookup was invoked
Invoked(api) == Cardinality(UNION {CallIdx(api, side) : side \in Sides \cup {"-"}})

HasReturned(api, side) == RetIdx(api, side) # {}

\* what the remote answered to the request of that side
RespTo(api, side) == log[CHOOSE i \in RetIdx(api, side) : TRUE].resp

HasErrorPayload(r) == "error" \in DOMAIN r.artifact

\* C1: once a chain lookup has returned success:false no token lookup and no
\* quote lookup is ever invoked, and the run returns "Failed to fetch chain
\* details. Please check the chain names and try again." with a diagnostic
\* payload that holds both lookup results.
C1_ChainFailureHalts ==
    (\E side \in Sides : chainRes[side] # None /\ ~chainRes[side][1].value.success) =>
        /\ Invoked("token") = 0
        /\ Invoked("quote") = 0
        /\ pc \in {"chains", "done"}
        /\ pc = "done" =>
             /\ result # None
             /\ result[1].msg.text = ChainError
             /\ HasErrorPayload(result[1])
             /\ result[1].artifact.details =
                    [fromChainResult |-> chainRes["from"][1].value,
                     toChainResult |-> chainRes["to"][1].value]

\* the from lookup found a chain, the to lookup failed, and the run returned
C1_Witness ==
    /\ pc = "done"
    /\ AllSettled(chainRes)
    /\ chainRes["from"][1].value.success
    /\ chainRes["from"][1].value.count = Some(2)
    /\ ~chainRes["to"][1].value.success
    /\ result[1].msg.text = ChainError

BothChainsSucceeded ==
    /\ AllSettled(chainRes)
    /\ chainRes["from"][1].value.success
    /\ chainRes["to"][1].value.success

EmptyMatch(side) == chainRes[side][1].value.data = Some(<<>>)

\* C2: when both chain lookups return success:true and either match list is
\* empty, no token lookup is issued for either side, no quote lookup is
\* issued, and the run returns an error message with a diagnostic payload.
C2_EmptyMatchIssuesNoLookup ==
    (BothChainsSucceeded /\ (EmptyMatch("from") \/ EmptyMatch("to"))) =>
        /\ Invoked("token") = 0
        /\ Invoked("quote") = 0
        /\ pc = "done" =>
             (result # None /\ result[1].msg.text = GenericError /\ HasErrorPayload(result[1]))

TokenReturnedNull(side) == tokenRes[side] # None /\ tokenRes[side][1].value = None

TokenReturnedRecord(side) == tokenRes[side] # None /\ tokenRes[side][1].value # None

\* the quote lookup is invoked at most once, after both chain lookups
\* returned success and both token lookups returned a record; a null quote
\* gives the quote message
QuoteGated ==
    /\ Invoked("quote") <= 1
    /\ Invoked("quote") = 1 =>
         /\ BothChainsSucceeded
         /\ TokenReturnedRecord("from") /\ TokenReturnedRecord("to")
         /\ \A api \in {"chain", "token"} : \A side \in Sides :
                \A i \in RetIdx(api, side) : \A j \in CallIdx("quote", "-") : i < j
    /\ (pc = "done" /\ HasReturned("quote", "-")
        /\ ~SatisfiesQuoteSchema(RespTo("quote", "-"))) =>
         (result[1].msg.text = QuoteError /\ HasErrorPayload(result[1]))

\* C3: the quote lookup is invoked at most once and only after both chain
\* lookups returned success and both token lookups returned a record; if
\* either token lookup returns null the run returns "Failed to fetch token
\* details. Please check the token symbols and try again." and never invokes
\* the quote lookup; a null quote gives "Failed to fetch quote. Please try
\* again with different parameters."
C3_QuoteOnlyAfterTokens ==
    /\ QuoteGated
    /\ \A side \in Sides :
           TokenReturnedNull(side) =>
               /\ Invoked("quote") = 0
               /\ pc = "done" => result[1].msg.text = TokenError

\* the same, for the runs in which both token lookups were started
C3_WhenBothTokenLookupsStarted ==
    /\ QuoteGated
    /\ \A side \in Sides :
           (TokenReturnedNull(side) /\ Invoked("token") = 2) =>
               /\ Invoked("quote") = 0
               /\ pc = "done" => (result[1].msg.text = TokenError /\ HasErrorPayload(result[1]))

\* what the run extracted from the reply of the language model
Extracted == llmOut[1].obj

ExtractedChain(side) == IF side = "from" THEN Extracted.fromChain.v ELSE Extracted.toChain.v

ExtractedToken(side) == IF side = "from" THEN Extracted.fromToken.v ELSE Extracted.toToken.v

\* the chain lookup of that side got an array none of whose records raised
\* and at least one of whose records holds the query
ChainLookupMatched(side) ==
    /\ HasReturned("chain", side)
    /\ RespTo("chain", side).kind = "array"
    /\ \A i \in 1..Len(RespTo("chain", side).chains) :
           ~RaisesOn(RespTo("chain", side).chains[i], ExtractedChain(side))
    /\ MatchIdx(RespTo("chain", side).chains, ExtractedChain(side)) # {}

\* the first match of the chain lookup of that side, as the lookup reshapes it
FirstMatchOf(side) ==
    ProcessChain(RespTo("chain", side).chains[
        NthMatch(RespTo("chain", side).chains, ExtractedChain(side), 1)]).chain

\* the token lookup of that side got a list in which the symbol is found
TokenLookupMatched(side) ==
    /\ HasReturned("token", side)
    /\ RespTo("token", side).kind = "array"
    /\ SymbolIdx(RespTo("token", side).tokens, ExtractedToken(side)) # {}
    /\ \A j \in 1..FirstSymbolIdx(RespTo("token", side).tokens, ExtractedToken(side)) :
           RespTo("token", side).tokens[j].symbol.t = "str"
    /\ LET t == RespTo("token", side).tokens[
                    FirstSymbolIdx(RespTo("token", side).tokens, ExtractedToken(side))]
       IN  t.address.t = "str" /\ t.decimals.t = "num" /\ t.chainId.t = "str"

\* the token record the token lookup of that side found
FirstTokenOf(side) ==
    RespTo("token", side).tokens[
        FirstSymbolIdx(RespTo("token", side).tokens, ExtractedToken(side))]

AllLookupsSucceeded ==
    /\ pc = "done"
    /\ \A side \in Sides : ChainLookupMatched(side)
    /\ \A side \in Sides : TokenLookupMatched(side)
    /\ HasReturned("quote", "-")
    /\ SatisfiesQuoteSchema(RespTo("quote", "-"))

\* C4: when extraction and all five lookups succeed, in whatever order the
\* concurrent lookups settle, the run returns [summary, artifact] where the
\* from/to chain is the first match of the from/to chain lookup, each token
\* lookup was made on the chain of its own side, the quote request carries
\* the chain ids of those first matches, the addresses of the tokens found
\* on the from and on the to chain, and the extracted amount unchanged, and
\* the artifact holds fromChain, toChain, fromToken, toToken, amount, quote.
C4_SuccessWiring ==
    AllLookupsSucceeded =>
        LET r == result[1]
            a == r.artifact
        IN  /\ DOMAIN r = {"msg", "artifact"}
            /\ r.msg.text = "Found route to"
            /\ r.msg.args[1] = Extracted.toToken.v
            /\ r.msg.args[2] = Extracted.toChain.v
            /\ DOMAIN a = {"fromChain", "toChain", "fromToken", "toToken", "amount", "quote"}
            /\ a.fromChain = FirstMatchOf("from")
            /\ a.toChain = FirstMatchOf("to")
            /\ tokenArgs["from"][1].chainId = FirstMatchOf("from").chainId
            /\ tokenArgs["to"][1].chainId = FirstMatchOf("to").chainId
            /\ TokenFieldsEqual(a.fromToken, FirstTokenOf("from"))
            /\ TokenFieldsEqual(a.toToken, FirstTokenOf("to"))
            /\ a.amount = Extracted.amount.v
            /\ a.quote = RespTo("quote", "-").body
            /\ Invoked("quote") = 1
            /\ quoteReq = Some([fromChainId |-> FirstMatchOf("from").chainId,
                                toChainId |-> FirstMatchOf("to").chainId,
                                fromTokenAddress |-> FirstTokenOf("from").address,
                                toTokenAddress |-> FirstTokenOf("to").address,
                                amount |-> Extracted.amount.v])

\* a successful run between two different chains in which the to side of
\* each concurrent pair settled before the from side
C4_Witness ==
    /\ AllLookupsSucceeded
    /\ FirstMatchOf("from") # FirstMatchOf("to")
    /\ FirstTokenOf("from").address # FirstTokenOf("to").address
    /\ \A i \in RetIdx("chain", "from") : \A j \in RetIdx("chain", "to") : j < i
    /\ \A i \in RetIdx("token", "from") : \A j \in RetIdx("token", "to") : j < i
    /\ result[1].msg.text = "Found route to"

\* the reply holds a "{" followed, somewhere, by a "}"
HasBracedText(toks) ==
    \E i \in 1..Len(toks) : \E j \in 1..Len(toks) : i < j /\ toks[i] = "{" /\ toks[j] = "}"

\* the text from the first "{" to the last "}"
BracedText(toks) ==
    LET i == CHOOSE k \in 1..Len(toks) :
                 toks[k] = "{" /\ \A m \in 1..(k - 1) : toks[m] # "{"
        j == CHOOSE k \in 1..Len(toks) :
                 toks[k] = "}" /\ \A m \in (k + 1)..Len(toks) : toks[m] # "}"
    IN  [k \in 1..(j - i + 1) |-> toks[i + k - 1]]

\* extraction must fail on this outcome of llm.invoke
MustFailExtraction(out) ==
    \/ out.kind = "throw"
    \/ ~out.isString
    \/ ~HasBracedText(out.toks)
    \/ BracedText(out.toks) \notin {<<"{", "}">>, <<"{", "kv", "}">>}
    \/ BracedText(out.toks) = <<"{", "}">>
    \/ \E f \in DetailFields : out.obj[f].t # "str"

\* C5: the language model is invoked exactly once per run; when its call
\* fails, its reply holds no {...}, the braced text is not JSON, or one of
\* the five fields is missing or not a string, the run ends with no chain,
\* token or quote lookup invoked and returns the error message with a
\* diagnostic payload; otherwise the extracted details are the reply's.
C5_ExtractionFailureAborts ==
    /\ Invoked("llm") = (IF pc = "start" THEN 0 ELSE 1)
    /\ llmOut # None =>
         IF MustFailExtraction(llmOut[1])
         THEN /\ pc = "done"
              /\ details = None
              /\ Invoked("chain") = 0 /\ Invoked("token") = 0 /\ Invoked("quote") = 0
              /\ pending = [chain |-> {}, token |-> {}, quote |-> {}]
              /\ result # None
              /\ result[1].msg.text = GenericError
              /\ HasErrorPayload(result[1])
              /\ result[1].artifact.query = query
         ELSE details = Some(llmOut[1].obj) /\ Invoked("chain") = 2

\* the reply is a JSON object that lacks toToken, and the run has ended
C5_Witness ==
    /\ pc = "done"
    /\ llmOut # None
    /\ llmOut[1].isString
    /\ llmOut[1].toks = <<"txt", "{", "kv", "}">>
    /\ llmOut[1].obj["toToken"].t = "undef"
    /\ result[1].msg.text = GenericError
    /\ Invoked("chain") = 0

---------------------------------------------------------------------------
(* The seeding script (src/seedDB.ts).                                     *)

\* a record of the chain directory: its name, and whether ChainSchema
\* (lines 27-42) accepts it
RawChains == {[name |-> n, schemaOk |-> ok] : n \in {"BSC", "Base"}, ok \in BOOLEAN}

\* lines 70-79: the records that fail ChainSchema.parse are dropped
ValidatedData(raw) == SelectSeq(raw, LAMBDA chain : chain.schemaOk)

\* lines 55-87, given how the fetch settled: the error is rethrown
FetchChainData(resp) ==
    IF resp.kind = "array"
    THEN [threw |-> FALSE, val |-> ValidatedData(resp.data)]
    ELSE [threw |-> TRUE, val |-> <<>>]

SeedFetchResponses ==
    {[kind |-> k, data |-> <<>>] : k \in {"neterr", "non2xx", "nodata"}}
    \cup {[kind |-> "array", data |-> d] : d \in SeqsUpTo(RawChains, MaxSeedChains)}

\* lines 154-167 and 171: one document per chain; addDocuments attaches the
\* embedding
Documents(chains, embedded) ==
    [i \in 1..Len(chains) |->
        [pageContent |-> <<"Chain:", chains[i].name>>, metadata |-> chains[i],
         embedding |-> embedded]]

OldDoc == [pageContent |-> <<"old">>, metadata |-> [name |-> "old", schemaOk |-> TRUE],
           embedding |-> TRUE]

\* a script that closes the connection only at the end of the try block
AfterThrowNoFinally == "settled"

\* lines 186-192: an error thrown in the try block is logged and rethrown,
\* and the finally block runs
AfterThrow == "finally"

SeedInit ==
    /\ LookupsIdle
    /\ NitroIdle
    /\ spc = "connect"
    /\ conn = "closed"
    /\ closeCalls = 0
    /\ coll \in {[i \in 1..n |-> OldDoc] : n \in 0..MaxOldDocs}
    /\ chainData = None
    /\ seedErr = None
    /\ exitCode = None

\* a statement of the try block threw
SeedThrow(step) ==
    /\ seedErr' = Some(step)
    /\ spc' = AfterThrow

\* line 126: client.connect()
SeedConnect ==
    /\ spc = "connect"
    /\ \E ok \in BOOLEAN :
         IF ok THEN conn' = "open" /\ spc' = "clear" /\ UNCHANGED seedErr
         ELSE SeedThrow("connect") /\ UNCHANGED conn
    /\ UNCHANGED <<lookupVars, nitroVars, closeCalls, coll, chainData, exitCode>>

\* line 132: collection.deleteMany({})
SeedClear ==
    /\ spc = "clear"
    /\ \E ok \in BOOLEAN :
         IF ok THEN coll' = <<>> /\ spc' = "fetch" /\ UNCHANGED seedErr
         ELSE SeedThrow("clear") /\ UNCHANGED coll
    /\ UNCHANGED <<lookupVars, nitroVars, conn, closeCalls, chainData, exitCode>>

\* line 135: fetchChainData()
SeedFetch ==
    /\ spc = "fetch"
    /\ \E resp \in SeedFetchResponses :
         LET r == FetchChainData(resp)
         IN  IF r.threw THEN SeedThrow("fetch") /\ UNCHANGED chainData
             ELSE chainData' = Some(r.val) /\ spc' = "store" /\ UNCHANGED seedErr
    /\ UNCHANGED <<lookupVars, nitroVars, conn, closeCalls, coll, exitCode>>

\* lines 139-150: the embeddings client and the vector store are constructed
SeedStore ==
    /\ spc = "store"
    /\ \E ok \in BOOLEAN :
         IF ok THEN spc' = "add" /\ UNCHANGED seedErr
         ELSE SeedThrow("store")
    /\ UNCHANGED <<lookupVars, nitroVars, conn, closeCalls, coll, chainData, exitCode>>

\* lines 154-171: the documents are built, embedded and inserted
SeedAdd ==
    /\ spc = "add"
    /\ \E ok \in BOOLEAN, embedded \in BOOLEAN :
         IF ok
         THEN /\ coll' = coll \o Documents(chainData[1], embedded)
              /\ spc' = "verify"
              /\ UNCHANGED seedErr
         ELSE SeedThrow("add") /\ UNCHANGED coll
    /\ UNCHANGED <<lookupVars, nitroVars, conn, closeCalls, chainData, exitCode>>

\* lines 178-185: collection.findOne({}); a missing embedding is a warning
SeedVerify ==
    /\ spc = "verify"
    /\ \E ok \in BOOLEAN :
         IF ok THEN spc' = "finally" /\ UNCHANGED seedErr
         ELSE SeedThrow("verify")
    /\ UNCHANGED <<lookupVars, nitroVars, conn, closeCalls, coll, chainData, exitCode>>

\* lines 189-192: client.close(); if it rejects, seedDatabase rejects with
\* its error
SeedFinally ==
    /\ spc = "finally"
    /\ closeCalls' = closeCalls + 1
    /\ \E ok \in BOOLEAN :
         IF ok THEN conn' = "closed" /\ UNCHANGED seedErr
         ELSE seedErr' = Some("close") /\ UNCHANGED conn
    /\ spc' = "settled"
    /\ UNCHANGED <<lookupVars, nitroVars, coll, chainData, exitCode>>

\* lines 196-199: a rejection ends the process with status 1; otherwise the
\* process ends when nothing is left to run, with status 0
SeedExit ==
    /\ spc = "settled"
    /\ exitCode' = IF seedErr # None THEN Some(1) ELSE Some(0)
    /\ spc' = "exited"
    /\ UNCHANGED <<lookupVars, nitroVars, conn, closeCalls, coll, chainData, seedErr>>

SeedNext ==
    \/ SeedConnect
    \/ SeedClear
    \/ SeedFetch
    \/ SeedStore
    \/ SeedAdd
    \/ SeedVerify
    \/ SeedFinally
    \/ SeedExit

SpecSeed == SeedInit /\ [][SeedNext]_vars

\* C10: on every path of seedDatabase, success or a failure at connect,
\* clear, fetch, store construction, insert or verification, client.close()
\* has been called once before seedDatabase settles and (unless close itself
\* rejects) the connection is then closed; the connection stays open from
\* connect until then; the process exits with status 1 after any failure and
\* never before the close, and ends with status 0, the collection holding
\* the new documents only, when every step succeeded.
C10_SeederAlwaysCloses ==
    /\ spc \in {"clear", "fetch", "store", "add", "verify"} =>
         (conn = "open" /\ closeCalls = 0 /\ seedErr = None)
    /\ spc \in {"settled", "exited"} =>
         /\ closeCalls = 1
         /\ seedErr # Some("close") => conn = "closed"
    /\ exitCode # None =>
         /\ spc = "exited"
         /\ closeCalls = 1
         /\ seedErr # None => exitCode = Some(1)
         /\ seedErr = None =>
              /\ exitCode = Some(0)
              /\ chainData # None
              /\ Len(coll) = Len(chainData[1])
              /\ \A i \in 1..Len(coll) : coll[i].metadata = chainData[1][i]

\* the verification read failed after the documents were inserted
C10_Witness ==
    /\ spc = "exited"
    /\ seedErr = Some("verify")
    /\ Len(coll) > 0
    /\ closeCalls = 1
    /\ conn = "closed"
    /\ exitCode = Some(1)

=============================================================================
